---- MODULE Spec2Model ----
(***************************************************************************)
(* State-machine model of src/main.py (SimplePDFMerger): the four-stage    *)
(* batch pipeline discover -> merge -> notify -> archive, its filesystem   *)
(* (source, archive and merged-output directories), the SMTP session and   *)
(* the wall clock read by datetime.now().                                  *)
(*                                                                         *)
(* Strings are sequences of character codes (ASCII), so that sorted(),     *)
(* os.path.basename, os.path.splitext, glob("*.pdf") and strftime are      *)
(* computed, not assumed.                                                  *)
(***************************************************************************)
EXTENDS Integers, Sequences, FiniteSets, TLC

\* ------------------------------------------------------------------ bounds
\* Largest number of pages the PDF reader yields from one input file.
MaxPages == 2
\* How many seconds past midnight the clock may show.
MaxSecs == 1
\* Number of files that arrive in the source folder in one behaviour.
MaxFiles == 3

\* --------------------------------------------------------------- strings
\* "incoming_pdfs", "archive", "merged_pdfs": the fallback= values of load_config.
source_folder == <<105,110,99,111,109,105,110,103,95,112,100,102,115>>
archive_folder == <<97,114,99,104,105,118,101>>
merged_folder == <<109,101,114,103,101,100,95,112,100,102,115>>

\* Names of the files that arrive in the source folder: "a.pdf" and "b.pdf".
FileNames == { <<97,46,112,100,102>>, <<98,46,112,100,102>> }

\* A file that is in the source folder all along and is no PDF: "z.txt".
OtherFile == <<122,46,116,120,116>>

\* The empty string, which Python treats as false ("if not merged_file").
NoPath == << >>

\* s[a..b], empty when a > b.
Slice(s, a, b) == [k \in 1..(IF b >= a THEN b - a + 1 ELSE 0) |-> s[a + k - 1]]

\* Position of the last occurrence of character c in s, 0 when absent.
LastIndexOf(s, c) ==
    LET hits == {k \in 1..Len(s) : s[k] = c}
    IN IF hits = {} THEN 0 ELSE CHOOSE k \in hits : \A j \in hits : j <= k

\* os.path.join(folder, name) with the POSIX separator "/".
join(folder, name) == folder \o <<47>> \o name

\* os.path.basename(path): what follows the last "/".
basename(path) == Slice(path, LastIndexOf(path, 47) + 1, Len(path))

\* os.path.splitext(filename): split at the last "." unless the name has
\* no dot or only leading dots; returns <<root, ext>>.
splitext(filename) ==
    LET dot == LastIndexOf(filename, 46)
        lead == \A k \in 1..(dot - 1) : filename[k] = 46
    IN IF dot = 0 \/ lead
       THEN <<filename, << >> >>
       ELSE <<Slice(filename, 1, dot - 1), Slice(filename, dot, Len(filename))>>

\* Path.glob("*.pdf"): names ending in ".pdf".
MatchesPdf(name) ==
    /\ Len(name) >= 4
    /\ Slice(name, Len(name) - 3, Len(name)) = <<46,112,100,102>>

\* Python's str "<": lexicographic by code point, a proper prefix is smaller.
RECURSIVE StrLess(_, _)
StrLess(s, t) ==
    IF t = << >> THEN FALSE
    ELSE IF s = << >> THEN TRUE
    ELSE IF s[1] # t[1] THEN s[1] < t[1]
    ELSE StrLess(Tail(s), Tail(t))

\* Two decimal digits, zero padded (the %H, %M, %S, %d fields of strftime).
Digits2(n) == <<48 + (n \div 10), 48 + (n % 10)>>

\* strftime("%H%M%S") of the clock value t (seconds since 2024-01-01 00:00:00).
TimeOfDay(t) ==
    LET s == t % 86400
    IN Digits2(s \div 3600) \o Digits2((s % 3600) \div 60) \o Digits2(s % 60)

\* strftime("%Y%m%d_%H%M%S"); the clock stays within January 2024.
DateTime(t) ==
    <<50,48,50,52,48,49>> \o Digits2(1 + (t \div 86400)) \o <<95>> \o TimeOfDay(t)

\* sorted(): ascending by StrLess (insertion sort; list.sort is stable and
\* the paths of one directory listing are pairwise distinct).
RECURSIVE Insert(_, _)
Insert(x, s) ==
    IF s = << >> THEN <<x>>
    ELSE IF StrLess(x, s[1]) THEN <<x>> \o s
    ELSE <<s[1]>> \o Insert(x, Tail(s))

RECURSIVE sorted(_)
sorted(s) == IF s = << >> THEN << >> ELSE Insert(s[1], sorted(Tail(s)))

\* str.strip(): drop leading and trailing spaces.
RECURSIVE strip(_)
strip(s) ==
    IF s = << >> THEN s
    ELSE IF s[1] = 32 THEN strip(Tail(s))
    ELSE IF s[Len(s)] = 32 THEN strip(Slice(s, 1, Len(s) - 1))
    ELSE s

\* str.split(','): always at least one field, empty fields kept.
RECURSIVE split(_)
split(s) ==
    LET commas == {k \in 1..Len(s) : s[k] = 44}
    IN IF commas = {} THEN <<s>>
       ELSE LET k == CHOOSE c \in commas : \A d \in commas : c <= d
            IN <<Slice(s, 1, k - 1)>> \o split(Slice(s, k + 1, Len(s)))

\* All orders in which a directory listing may enumerate the set S.
Orderings(S) ==
    {q \in [1..Cardinality(S) -> S] : \A i, j \in 1..Cardinality(S) : q[i] = q[j] => i = j}

\* ----------------------------------------------------------------- state
VARIABLES
    \* the world outside the process
    srcExists,    \* the source folder exists
    srcDir,       \* source folder: file name -> which arrival of that name it holds
    archDir,      \* archive folder: file name -> <<original name, arrival>>
    mergedDir,    \* merged folder: file name -> [fresh, complete]; fresh = written by
                  \* the current process.  Holds the files a process can still reach.
    clock,        \* seconds since 2024-01-01 00:00:00, as datetime.now() sees it
    arrived,      \* how many files of each name have arrived so far
    \* SimplePDFMerger.run
    stage,        \* Idle, Discovering, Merging, Notifying, Archiving, Done
    pdf_files,    \* run(): the list returned by find_pdf_files
    idx,          \* position of the for-loop of merge_pdfs / archive_files
    merger,       \* merge_pdfs: pages held by the PdfWriter, <<path, page no>>
    reads,        \* merge_pdfs: what PdfReader did with each file so far
    merged_file,  \* run(): the value returned by merge_pdfs (NoPath = None)
    output,       \* pages serialized into the output file by this run
    emailPc,      \* position inside send_email
    emailLocals,  \* send_email: host, sender, sender_password set, recipients, attachment, pending exception
    conn,         \* the SMTP connection: none, open, closed
    email,        \* how send_email ended: none, skipped, failed, sent
    email_sent,   \* run(): the value returned by send_email
    moves,        \* archive_files: one record per file it handled
    result,       \* what run() returned: running, True, False
    reported      \* what main() printed: none, success, errors

vars == <<srcExists, srcDir, archDir, mergedDir, clock, arrived, stage, pdf_files, idx,
          merger, reads, merged_file, output, emailPc, emailLocals, conn, email,
          email_sent, moves, result, reported>>

world == <<srcExists, srcDir, archDir, mergedDir, clock, arrived>>
mergeVars == <<merger, reads, merged_file, output>>
emailVars == <<emailPc, emailLocals, conn, email, email_sent>>

NoLocals ==
    [smtp_server |-> << >>, sender_email |-> << >>, password |-> FALSE,
     recipients |-> << >>, attached |-> FALSE, exc |-> FALSE]

\* Clock values the model lets datetime.now() return: the first seconds of
\* 2024-01-01 and midnight of the following day.
Instants == (0..MaxSecs) \cup {86400}

\* datetime.now(): the clock never runs backwards.
Now(t) == t \in Instants /\ t >= clock

\* The state of a process that has not started run() yet.
Fresh ==
    /\ stage = "Idle"
    /\ pdf_files = << >>
    /\ idx = 1
    /\ merger = << >>
    /\ reads = << >>
    /\ merged_file = NoPath
    /\ output = << >>
    /\ emailPc = "idle"
    /\ emailLocals = NoLocals
    /\ conn = "none"
    /\ email = "none"
    /\ email_sent = FALSE
    /\ moves = << >>
    /\ result = "running"
    /\ reported = "none"

\* Directories are functions from file name to content.
EmptyDir == [n \in {} |-> 0]
Put(dir, n, v) == [k \in (DOMAIN dir) \cup {n} |-> IF k = n THEN v ELSE dir[k]]
Remove(dir, n) == [k \in (DOMAIN dir) \ {n} |-> dir[k]]

Init ==
    /\ srcExists \in BOOLEAN
    /\ srcDir = IF srcExists THEN Put(EmptyDir, OtherFile, 0) ELSE EmptyDir
    /\ archDir = EmptyDir
    /\ mergedDir = EmptyDir
    /\ clock = 0
    /\ arrived = [n \in FileNames |-> 0]
    /\ Fresh

\* ------------------------------------------------------------ environment
\* Sum of f over the set S of its arguments.
RECURSIVE Sum(_, _)
Sum(f, S) == IF S = {} THEN 0 ELSE LET x == CHOOSE y \in S : TRUE IN f[x] + Sum(f, S \ {x})

\* A file arrives in the source folder before the scheduled run starts.
Drop(name) ==
    /\ stage = "Idle"
    /\ srcExists
    /\ name \notin DOMAIN srcDir
    /\ Sum(arrived, FileNames) < MaxFiles
    /\ arrived' = [arrived EXCEPT ![name] = @ + 1]
    /\ srcDir' = Put(srcDir, name, arrived'[name])
    /\ UNCHANGED <<srcExists, archDir, mergedDir, clock, stage, pdf_files, idx,
                   mergeVars, emailVars, moves, result, reported>>

\* --------------------------------------------------------------- run()
\* main() constructs the processor and enters run().
Start ==
    /\ stage = "Idle"
    /\ stage' = "Discovering"
    /\ UNCHANGED <<world, pdf_files, idx, mergeVars, emailVars, moves, result, reported>>

\* find_pdf_files applied to one enumeration of the matching directory entries.
find_pdf_files_unsorted(listing) == listing
find_pdf_files(listing) == sorted(listing)

\* The truth value run() gives a list or a path: empty is false.
Truthy(x) == x # << >>

\* "if not pdf_files: return False": where run() goes after step 1.
AfterDiscoveryNoCheck(files) == "Merging"
AfterDiscovery(files) == IF Truthy(files) THEN "Merging" ELSE "Done"

\* "if not merged_file: return False": where run() goes after step 2.
AfterMergeNoCheck(merged) == "Notifying"
AfterMerge(merged) == IF Truthy(merged) THEN "Notifying" ELSE "Done"

\* Step 1 of run(): find_pdf_files, then the early return on an empty list.
Discover ==
    /\ stage = "Discovering"
    /\ \E listing \in (IF srcExists
                       THEN Orderings({join(source_folder, n) : n \in {m \in DOMAIN srcDir : MatchesPdf(m)}})
                       ELSE {<< >>}) :
          /\ pdf_files' = find_pdf_files(listing)
          /\ stage' = AfterDiscovery(pdf_files')
          /\ result' = IF stage' = "Done" THEN "False" ELSE result
    /\ idx' = 1
    /\ UNCHANGED <<world, mergeVars, emailVars, moves, reported>>

\* ----------------------------------------------------------- merge_pdfs
\* What one pass of the inner loop leaves in the PdfWriter: the pages
\* 1..n of the file that were decoded before the reader stopped.
AddPages(m, file, n) == m \o [k \in 1..n |-> <<file, k>>]

\* One iteration of "for pdf_file in pdf_files": PdfReader yields n pages
\* and then either ends (ok) or raises, which is caught and logged.
MergeRead ==
    /\ stage = "Merging"
    /\ idx <= Len(pdf_files)
    /\ \E ok \in BOOLEAN :
       \E n \in (IF ok THEN 1..MaxPages ELSE 0..(MaxPages - 1)) :
          /\ merger' = AddPages(merger, pdf_files[idx], n)
          /\ reads' = Append(reads, [file |-> pdf_files[idx], pages |-> n, ok |-> ok])
    /\ idx' = idx + 1
    /\ UNCHANGED <<world, stage, pdf_files, merged_file, output, emailVars, moves,
                   result, reported>>

\* "merged_<timestamp>.pdf"
OutputName(t) == <<109,101,114,103,101,100,95>> \o DateTime(t) \o <<46,112,100,102>>

\* The end of merge_pdfs and step 2 of run(): name the output after the
\* clock, open it for writing (which creates or truncates it), serialize.
\* open() or write() may raise; the outer handler then returns None.
MergeWrite ==
    /\ stage = "Merging"
    /\ idx > Len(pdf_files)
    /\ \E t \in Instants, how \in {"ok", "open fails", "write fails"} :
          /\ Now(t)
          /\ clock' = t
          /\ mergedDir' =
                IF how = "open fails" THEN mergedDir
                ELSE Put(mergedDir, OutputName(t), [fresh |-> TRUE, complete |-> how = "ok"])
          /\ merged_file' = IF how = "ok" THEN join(merged_folder, OutputName(t)) ELSE NoPath
          /\ output' = IF how = "ok" THEN merger ELSE << >>
          /\ stage' = AfterMerge(merged_file')
          /\ emailPc' = IF stage' = "Done" THEN emailPc ELSE "config"
          /\ result' = IF stage' = "Done" THEN "False" ELSE result
    /\ UNCHANGED <<srcExists, srcDir, archDir, arrived, pdf_files, idx, merger, reads,
                   emailLocals, conn, email, email_sent, moves, reported>>

\* The number in "Merged {len(pdf_files)} files into ...", the log line of a
\* merge that returned a path.
MergeLogCount(files) == Len(files)

\* ----------------------------------------------------------- send_email
\* Values config.ini may hold: "" or "h" for smtp_server, "" or "s" for
\* sender_email, "" or "p" for sender_password, and for recipients
\* "", "," or "r, t".
Servers == { << >>, <<104>> }
Senders == { << >>, <<115>> }
Passwords == { << >>, <<112>> }
RecipientStrs == { << >>, <<44>>, <<114,44,32,116>> }

\* recipients = [r.strip() for r in recipients_str.split(',')]
Recipients(recipients_str) ==
    LET parts == split(recipients_str) IN [k \in 1..Len(parts) |-> strip(parts[k])]

\* A send_email whose failures would escape to run() and end it.
ReturnOrRaise(how, sent) ==
    /\ email' = how
    /\ email_sent' = sent
    /\ emailPc' = "idle"
    /\ emailLocals' = NoLocals
    /\ stage' = IF how = "failed" THEN "Done" ELSE "Archiving"
    /\ idx' = 1

\* send_email returns to run(), which goes on to step 4.
Return(how, sent) ==
    /\ email' = how
    /\ email_sent' = sent
    /\ emailPc' = "idle"
    /\ emailLocals' = NoLocals
    /\ stage' = "Archiving"
    /\ idx' = 1

\* Lines 126-158: read the settings, return early when they are incomplete,
\* otherwise build the message.  getint raises on a malformed smtp_port.
SendEmailConfig ==
    /\ stage = "Notifying"
    /\ emailPc = "config"
    /\ \E smtp_server \in Servers, port_ok \in BOOLEAN, sender_email \in Senders,
          sender_password \in Passwords, recipients_str \in RecipientStrs :
          IF ~port_ok THEN Return("failed", FALSE)
          ELSE IF ~Truthy(smtp_server) \/ ~Truthy(sender_email) THEN Return("skipped", FALSE)
          ELSE IF ~Truthy(recipients_str) THEN Return("skipped", FALSE)
          ELSE /\ emailLocals' = [smtp_server |-> smtp_server,
                                  sender_email |-> sender_email,
                                  password |-> Truthy(sender_password),
                                  recipients |-> Recipients(recipients_str),
                                  attached |-> Truthy(merged_file)
                                               /\ basename(merged_file) \in DOMAIN mergedDir,
                                  exc |-> FALSE]
               /\ emailPc' = "connect"
               /\ UNCHANGED <<email, email_sent, stage, idx>>
    /\ UNCHANGED <<world, pdf_files, mergeVars, conn, moves, result, reported>>

\* smtplib.SMTP(smtp_server, smtp_port): connects, or raises with no
\* connection made.
SmtpConnect ==
    /\ stage = "Notifying"
    /\ emailPc = "connect"
    /\ \E ok \in BOOLEAN :
          IF ok
          THEN /\ conn' = "open"
               /\ emailPc' = "starttls"
               /\ UNCHANGED <<email, email_sent, emailLocals, stage, idx>>
          ELSE /\ conn' = conn
               /\ Return("failed", FALSE)
    /\ UNCHANGED <<world, pdf_files, mergeVars, moves, result, reported>>

\* One call inside the with-block; a failure leaves the block with the
\* exception pending.
SmtpCall(at, next) ==
    /\ stage = "Notifying"
    /\ emailPc = at
    /\ \E ok \in BOOLEAN :
          IF ok
          THEN /\ emailPc' = next
               /\ emailLocals' = emailLocals
          ELSE /\ emailPc' = "exit"
               /\ emailLocals' = [emailLocals EXCEPT !.exc = TRUE]
    /\ UNCHANGED <<world, stage, pdf_files, idx, mergeVars, conn, email, email_sent,
                   moves, result, reported>>

\* server.starttls(), then login only "if sender_password".
SmtpStartTls == SmtpCall("starttls", IF emailLocals.password THEN "login" ELSE "send_message")

\* server.login(sender_email, sender_password)
SmtpLogin == SmtpCall("login", "send_message")

\* server.send_message(msg)
SmtpSendMessage == SmtpCall("send_message", "exit")

\* A with-block that would leave the connection as it found it.
WithExitNoClose(c) == c

\* "with smtplib.SMTP(...) as server": however the block is left, by its
\* last statement or by an exception, SMTP.__exit__ closes the connection.
WithExit(c) == "closed"

\* Leaving the with-block closes the connection; then either the handler
\* of line 170 returns False or line 168 returns True.
SmtpExit ==
    /\ stage = "Notifying"
    /\ emailPc = "exit"
    /\ conn' = WithExit(conn)
    /\ IF emailLocals.exc THEN Return("failed", FALSE) ELSE Return("sent", TRUE)
    /\ UNCHANGED <<world, pdf_files, mergeVars, moves, result, reported>>

\* -------------------------------------------------------- archive_files
\* The destination name archive_files computes for a file, given the
\* archive folder's content and the time of day it would read.
ArchiveName(filename, dir, t) ==
    IF filename \in DOMAIN dir
    THEN splitext(filename)[1] \o <<95>> \o TimeOfDay(t) \o splitext(filename)[2]
    ELSE filename

\* The list run() hands to archive_files: "self.archive_files(pdf_files)".
ArchiveInputMergedOnly ==
    SelectSeq(pdf_files, LAMBDA f : \E k \in 1..Len(reads) : reads[k].file = f /\ reads[k].ok)
ArchiveInput == pdf_files

\* "for file in pdf_files": the loop goes on while files are left, whatever
\* happened to the earlier ones (ms: the moves made so far).
MoreToArchiveUntilError(files, i, ms) ==
    i <= Len(files) /\ \A k \in 1..Len(ms) : ms[k].ok
MoreToArchive(files, i, ms) == i <= Len(files)

\* One iteration of "for file in pdf_files".  os.rename may raise (the file
\* vanished, permission denied); onto an existing destination it replaces
\* it (POSIX) or raises (Windows).  Every exception is caught and logged.
ArchiveStep ==
    /\ stage = "Archiving"
    /\ MoreToArchive(ArchiveInput, idx, moves)
    /\ LET file == ArchiveInput[idx]
           filename == basename(file)
       IN \E t \in Instants, how \in {"ok", "raises"} :
             /\ Now(t)
             /\ IF filename \in DOMAIN archDir THEN TRUE ELSE t = clock
             /\ clock' = t
             /\ LET dest == ArchiveName(filename, archDir, t)
                    done == how = "ok" /\ filename \in DOMAIN srcDir
                IN /\ moves' = Append(moves, [file |-> file, dest |-> dest, ok |-> done])
                   /\ IF done
                      THEN /\ srcDir' = Remove(srcDir, filename)
                           /\ archDir' = Put(archDir, dest, <<filename, srcDir[filename]>>)
                      ELSE UNCHANGED <<srcDir, archDir>>
    /\ idx' = idx + 1
    /\ UNCHANGED <<srcExists, mergedDir, arrived, stage, pdf_files, mergeVars, emailVars,
                   result, reported>>

\* What run() returns after step 4: True, whatever send_email returned.
RunResultNeedsEmail(merged, sent) == IF sent THEN "True" ELSE "False"
RunResult(merged, sent) == "True"

\* The loop of archive_files has ended; run() logs the summary and returns.
ArchiveDone ==
    /\ stage = "Archiving"
    /\ ~MoreToArchive(ArchiveInput, idx, moves)
    /\ stage' = "Done"
    /\ result' = RunResult(merged_file, email_sent)
    /\ UNCHANGED <<world, pdf_files, idx, mergeVars, emailVars, moves, reported>>

\* The number in "- Merged {len(pdf_files)} files", the summary run() logs
\* before it returns True.
SummaryCount(files) == Len(files)

\* ----------------------------------------------------------------- main
\* "if success:" prints the success banner, else the error banner.
MainReport ==
    /\ stage = "Done"
    /\ reported = "none"
    /\ reported' = IF result = "True" THEN "success" ELSE "errors"
    /\ UNCHANGED <<world, stage, pdf_files, idx, mergeVars, emailVars, moves, result>>

\* The scheduler starts the program again: a new process, a new object.
\* Merged files named after a second that has passed can never be opened
\* again (the clock does not run backwards), so mergedDir stops tracking them.
NewRun ==
    /\ stage = "Done"
    /\ reported # "none"
    /\ mergedDir' = [n \in (DOMAIN mergedDir) \cap {OutputName(clock)} |->
                        [mergedDir[n] EXCEPT !.fresh = FALSE]]
    /\ stage' = "Idle"
    /\ pdf_files' = << >>
    /\ idx' = 1
    /\ merger' = << >>
    /\ reads' = << >>
    /\ merged_file' = NoPath
    /\ output' = << >>
    /\ emailPc' = "idle"
    /\ emailLocals' = NoLocals
    /\ conn' = "none"
    /\ email' = "none"
    /\ email_sent' = FALSE
    /\ moves' = << >>
    /\ result' = "running"
    /\ reported' = "none"
    /\ UNCHANGED <<srcExists, srcDir, archDir, clock, arrived>>

\* The steps of one process, from main() to its report.
RunNext ==
    \/ Start
    \/ Discover
    \/ MergeRead
    \/ MergeWrite
    \/ SendEmailConfig
    \/ SmtpConnect
    \/ SmtpStartTls
    \/ SmtpLogin
    \/ SmtpSendMessage
    \/ SmtpExit
    \/ ArchiveStep
    \/ ArchiveDone
    \/ MainReport

Next ==
    \/ \E name \in FileNames : Drop(name)
    \/ RunNext
    \/ NewRun

Spec == Init /\ [][Next]_vars

\* One process: the files arrive, main() runs once.
OneRunNext ==
    \/ \E name \in FileNames : Drop(name)
    \/ RunNext

\* The program is one sequential thread: every call of the pipeline returns
\* or raises, so a started process keeps taking steps until main() has
\* printed its report.
FairRunSpec == Init /\ [][OneRunNext]_vars /\ WF_vars(RunNext)

\* Discovery and merge alone, over a folder that holds any non-empty choice
\* of "B.pdf", "a.pdf" and "ab.pdf" beside the file that is no PDF.
MergeNames == { <<66,46,112,100,102>>, <<97,46,112,100,102>>, <<97,98,46,112,100,102>> }

MergeInit ==
    /\ srcExists = TRUE
    /\ \E S \in (SUBSET MergeNames) \ {{}} :
          srcDir = [n \in S \cup {OtherFile} |-> IF n = OtherFile THEN 0 ELSE 1]
    /\ archDir = EmptyDir
    /\ mergedDir = EmptyDir
    /\ clock = 0
    /\ arrived = [n \in FileNames |-> 0]
    /\ Fresh

MergeNext ==
    \/ Start
    \/ Discover
    \/ MergeRead
    \/ MergeWrite

MergeSpec == MergeInit /\ [][MergeNext]_vars

\* ================================================================ claims
\* merge_pdfs has returned to run() (with at least one file to merge).
MergeReturned == stage \in {"Notifying", "Archiving", "Done"} /\ pdf_files # << >>

\* This process created or rewrote a file in the merged folder.
FileCreated == \E n \in DOMAIN mergedDir : mergedDir[n].fresh

\* This process left a completely written output file in the merged folder.
ProducedOutput == \E n \in DOMAIN mergedDir : mergedDir[n].fresh /\ mergedDir[n].complete

\* No input was read to its end without an error.
NoneValid == \A k \in 1..Len(reads) : ~reads[k].ok

\* C1: when none of the N >= 1 discovered files loads as a valid document,
\* merge_pdfs returns no output path and creates no file in the merged folder.
C1_NoValidInputNoOutput ==
    (MergeReturned /\ NoneValid) => (merged_file = NoPath /\ ~FileCreated)

\* C2: once run() has returned, it returned True, and main() printed the
\* success banner, exactly when this run left a written output file on disk,
\* whatever send_email and the moves of archive_files did.
C2_VerdictIsMergeOutcome ==
    stage = "Done" =>
        /\ (result = "True") <=> ProducedOutput
        /\ reported # "none" => ((reported = "success") <=> ProducedOutput)

\* C2 witness: a run reported as a success although the email failed and a
\* move into the archive failed.
C2_Witness ==
    /\ stage = "Done"
    /\ reported = "success"
    /\ email = "failed"
    /\ \E k \in 1..Len(moves) : ~moves[k].ok

\* C3: the stage only moves along Idle -> Discovering -> Merging ->
\* Notifying -> Archiving -> Done, each stage left only when it has finished;
\* the only shortcuts are Discovering -> Done with no file found and
\* Merging -> Done with no output, both returning False; a later process
\* starts again from Idle.  Every run that has started reaches Done.
C3_Step ==
    stage' # stage =>
        \/ stage = "Idle" /\ stage' = "Discovering"
        \/ stage = "Discovering" /\ stage' = "Merging" /\ pdf_files' # << >>
        \/ stage = "Discovering" /\ stage' = "Done" /\ pdf_files' = << >> /\ result' = "False"
        \/ /\ stage = "Merging" /\ stage' = "Notifying"
           /\ Len(reads) = Len(pdf_files) /\ merged_file' # NoPath
        \/ stage = "Merging" /\ stage' = "Done" /\ merged_file' = NoPath /\ result' = "False"
        \/ stage = "Notifying" /\ stage' = "Archiving" /\ email' # "none"
        \/ /\ stage = "Archiving" /\ stage' = "Done"
           /\ Len(moves) = Len(pdf_files) /\ result' = "True"
        \/ stage = "Done" /\ stage' = "Idle" /\ reported # "none"

\* C3: every stage change is one of the edges of C3_Step, and every run
\* that has entered Discovering eventually reaches Done.
C3_LinearPipeline ==
    /\ [][C3_Step]_vars
    /\ (stage = "Discovering") ~> (stage = "Done")

\* C3 witness: a run that went through every stage, with two files.
C3_Witness ==
    /\ stage = "Done"
    /\ result = "True"
    /\ Len(reads) = 2
    /\ email # "none"
    /\ Len(moves) = 2

\* C4: when discovery yields no file (folder missing, or no *.pdf in it)
\* run() returns False and nothing of merge, notify or archive has happened:
\* no file read or written, no email step taken, no move attempted.
C4_NoFilesNoWork ==
    (stage \notin {"Idle", "Discovering"} /\ pdf_files = << >>) =>
        /\ stage = "Done"
        /\ result = "False"
        /\ reported # "success"
        /\ reads = << >> /\ merged_file = NoPath /\ ~FileCreated
        /\ email = "none" /\ emailPc = "idle" /\ conn = "none"
        /\ moves = << >>

\* C4 witness: the folder exists, holds only a file that is no PDF, and the
\* run has ended.
C4_Witness ==
    /\ stage = "Done"
    /\ pdf_files = << >>
    /\ srcExists
    /\ DOMAIN srcDir = {OtherFile}
    /\ reported = "errors"

\* C5: the only stage that follows Notifying is Archiving, with send_email
\* having returned sent, skipped or failed; and whenever the run is in
\* Notifying it gets to Archiving.
C5_ArchiveAfterNotify ==
    /\ [][(stage = "Notifying" /\ stage' # stage) =>
             (stage' = "Archiving" /\ email' \in {"sent", "skipped", "failed"})]_vars
    /\ (stage = "Notifying") ~> (stage = "Archiving")

\* C5 witness: files are being archived after a failure inside the SMTP
\* session.
C5_Witness ==
    /\ stage = "Archiving"
    /\ email = "failed"
    /\ conn = "closed"
    /\ moves # << >>

\* C6: no step replaces or removes a file that is in the archive folder.
C6_ArchiveNeverOverwrites ==
    [][\A n \in DOMAIN archDir : n \in DOMAIN archDir' /\ archDir'[n] = archDir[n]]_vars

\* The file discovered under this path is in the archive folder and no
\* longer in the source folder.
Archived(file) ==
    /\ basename(file) \notin DOMAIN srcDir
    /\ \E d \in DOMAIN archDir : archDir[d] = <<basename(file), arrived[basename(file)]>>

\* The files that contributed at least one page to the writer.
Contributors == {reads[k].file : k \in {j \in 1..Len(reads) : reads[j].pages > 0}}

RECURSIVE PagesRead(_, _)
PagesRead(rs, goodOnly) ==
    IF rs = << >> THEN << >>
    ELSE (IF goodOnly /\ ~rs[1].ok THEN << >> ELSE [j \in 1..rs[1].pages |-> <<rs[1].file, j>>])
         \o PagesRead(Tail(rs), goodOnly)

RECURSIVE PageCount(_)
PageCount(rs) == IF rs = << >> THEN 0 ELSE rs[1].pages + PageCount(Tail(rs))

\* C8: when every input is a valid document and the output was written,
\* the files were read in strictly ascending order of path, they are all
\* the *.pdf files of the source folder, and the output is their pages in
\* that order, each file's pages in order: as many as the inputs have.
C8_MergedInPathOrder ==
    (Truthy(merged_file) /\ \A k \in 1..Len(reads) : reads[k].ok) =>
        /\ \A i, j \in 1..Len(pdf_files) : i < j => StrLess(pdf_files[i], pdf_files[j])
        /\ [k \in 1..Len(reads) |-> reads[k].file] = pdf_files
        /\ output = PagesRead(reads, FALSE)
        /\ Len(output) = PageCount(reads)
        /\ stage = "Notifying" =>
              {pdf_files[k] : k \in 1..Len(pdf_files)}
                 = {join(source_folder, n) : n \in {m \in DOMAIN srcDir : MatchesPdf(m)}}

\* C8 witness: three valid inputs of two pages, one page and two pages, merged.
C8_Witness ==
    /\ Truthy(merged_file)
    /\ Len(reads) = 3
    /\ reads[1].ok /\ reads[1].pages = 2
    /\ reads[2].ok /\ reads[2].pages = 1
    /\ reads[3].ok /\ reads[3].pages = 2
    /\ Len(output) = 5

\* C9: the output holds the pages of the inputs that were read without
\* error, in full, and no page of an input whose reading raised.
C9_BadInputContributesNothing ==
    Truthy(merged_file) => output = PagesRead(reads, TRUE)

\* C10: archive_files handles the discovered files one by one in their
\* order, all of them by the end of a successful run, whether or not they
\* were read without error; and a file leaves the source folder only when it
\* is one of the discovered files.
C10_ArchiveExactlyDiscovered ==
    /\ [](/\ Len(moves) <= Len(pdf_files)
          /\ \A k \in 1..Len(moves) : moves[k].file = pdf_files[k]
          /\ (stage = "Done" /\ result = "True") => Len(moves) = Len(pdf_files))
    /\ [][\A n \in (DOMAIN srcDir) \ (DOMAIN srcDir') :
             \E k \in 1..Len(pdf_files) : pdf_files[k] = join(source_folder, n)]_vars

\* C10 witness: a successful run that moved a file which could not be
\* opened and contributed no page.
C10_Witness ==
    /\ stage = "Done" /\ result = "True"
    /\ \E k \in 1..Len(moves) :
          /\ moves[k].ok
          /\ ~reads[k].ok /\ reads[k].pages = 0
          /\ Archived(moves[k].file)

\* C11: a move that raises does not end archive_files: the stage is left
\* only when a move has been attempted on every discovered file, in order,
\* and at the end of the run every file whose move went through is in the
\* archive folder under the name computed for it, no longer in the source.
C11_ArchiveIsBestEffort ==
    /\ [][(stage = "Archiving" /\ stage' # stage) =>
             /\ Len(moves) = Len(pdf_files)
             /\ \A k \in 1..Len(moves) : moves[k].file = pdf_files[k]]_vars
    /\ []((stage = "Done" /\ result = "True") =>
             \A k \in 1..Len(moves) :
                 moves[k].ok =>
                     /\ moves[k].dest \in DOMAIN archDir
                     /\ archDir[moves[k].dest][1] = basename(moves[k].file)
                     /\ basename(moves[k].file) \notin DOMAIN srcDir)

\* C11 witness: the first move raised, its file is still in the source
\* folder, and the second file was moved into the archive all the same.
C11_Witness ==
    /\ stage = "Done"
    /\ Len(moves) = 2
    /\ ~moves[1].ok /\ basename(moves[1].file) \in DOMAIN srcDir
    /\ moves[2].ok /\ moves[2].dest \in DOMAIN archDir

\* The recipient list names at least one address.
HasRecipient(recipients) == \E k \in 1..Len(recipients) : recipients[k] # << >>

\* C12: send_email opens an SMTP connection only when the host is set, the
\* sender is set and the recipient list holds at least one address;
\* otherwise it returns not sent with no connection made, and run() goes on
\* to archive.
C12_IncompleteConfigIsSkipped ==
    /\ conn = "open" =>
          /\ Truthy(emailLocals.smtp_server)
          /\ Truthy(emailLocals.sender_email)
          /\ HasRecipient(emailLocals.recipients)
    /\ email = "skipped" =>
          /\ conn = "none" /\ ~email_sent
          /\ stage \in {"Archiving", "Done"}

\* C13: a connection is open only inside send_email, between the connect
\* and the end of the with-block; once send_email has returned, whether the
\* message was sent or starttls, login or send_message raised, the
\* connection it opened is closed, and none is open while the run is
\* discovering, merging or archiving.
C13_ConnectionClosedOnReturn ==
    /\ conn = "open" =>
          /\ stage = "Notifying"
          /\ emailPc \in {"starttls", "login", "send_message", "exit"}
    /\ stage \in {"Idle", "Discovering", "Merging"} => conn = "none"
    /\ email = "sent" => conn = "closed"
    /\ email \in {"skipped", "failed"} => conn \in {"none", "closed"}

\* C13 witness: the run has ended after an exception inside the SMTP
\* session, and the connection that had been opened is closed.
C13_Witness ==
    /\ stage = "Done"
    /\ email = "failed"
    /\ conn = "closed"
    /\ reported = "success"

\* The files of the merged folder this process created or rewrote.
FreshFiles == {n \in DOMAIN mergedDir : mergedDir[n].fresh}

\* A successful run wrote exactly one file, the one merge_pdfs returned,
\* complete and named after an instant not later than now.
C14_OneOutputPerSuccess ==
    (stage = "Done" /\ result = "True") =>
        /\ FreshFiles = {basename(merged_file)}
        /\ mergedDir[basename(merged_file)].complete
        /\ \E t \in Instants : t <= clock /\ basename(merged_file) = OutputName(t)

\* A step rewrites a file an earlier process left in the merged folder only
\* with a name made from the second that earlier process ended in.
C14_OverwriteOnlySameSecond ==
    \A n \in DOMAIN mergedDir :
        (~mergedDir[n].fresh /\ n \in DOMAIN mergedDir' /\ mergedDir'[n].fresh) =>
            (clock' = clock /\ n = OutputName(clock))

\* A failed run created or rewrote nothing in the merged folder.
C14_FailureWritesNothing == (stage = "Done" /\ result = "False") => FreshFiles = {}

\* C14: a successful run writes exactly one new file, merged_<timestamp>.pdf
\* named from the time of the merge; a file already in the merged folder is
\* overwritten only by a run that merges within the same second as the run
\* that wrote it; and a failed run leaves the merged folder as it was.
C14_MergedFolderFrame ==
    /\ [](C14_OneOutputPerSuccess /\ C14_FailureWritesNothing)
    /\ [][C14_OverwriteOnlySameSecond]_vars

\* The inputs folded into the output: read to their end, their pages
\* appended, not given up as unreadable.
FoldedIn == {k \in 1..Len(reads) : reads[k].ok /\ reads[k].pages > 0}

\* C15: the count in the merge log line and in the final summary of a
\* successful run is the number of inputs that were folded into the output,
\* the inputs skipped as unreadable not counted.
C15_CountIsFilesFoldedIn ==
    (stage = "Done" /\ result = "True") =>
        /\ MergeLogCount(pdf_files) = Cardinality(FoldedIn)
        /\ SummaryCount(pdf_files) = Cardinality(FoldedIn)

\* What a run that ends in failure has left alone: no move attempted, no
\* step of send_email taken, no connection made, and every discovered file
\* still in the source folder, the very file that was discovered.
Untouched ==
    /\ moves = << >>
    /\ email = "none" /\ emailPc = "idle" /\ conn = "none" /\ ~email_sent
    /\ \A k \in 1..Len(pdf_files) :
          /\ basename(pdf_files[k]) \in DOMAIN srcDir
          /\ srcDir[basename(pdf_files[k])] = arrived[basename(pdf_files[k])]

\* C16: when discovery found no file, or merge_pdfs returned no path (the
\* case of open() or write() raising included), the run ends at once with
\* False, having attempted no move and no email: every discovered file is
\* still in the source folder.  The archive folder changes, and a file
\* leaves the source folder, only in a move attempted by archive_files.
C16_FailureTouchesNothing ==
    /\ []((stage \in {"Notifying", "Archiving", "Done"}
              /\ (pdf_files = << >> \/ merged_file = NoPath)) =>
             (stage = "Done" /\ result = "False" /\ Untouched))
    /\ [](result = "False" => (stage = "Done" /\ Untouched))
    /\ [][(archDir' # archDir \/ (DOMAIN srcDir) \ (DOMAIN srcDir') # {}) =>
             (stage = "Archiving" /\ Len(moves') = Len(moves) + 1)]_vars

\* C16 witness: two files were discovered, the output file was opened and
\* writing it raised; the run has reported its failure, with both files
\* in the source folder and an archive that holds an earlier run's file.
C16_Witness ==
    /\ stage = "Done" /\ result = "False" /\ reported = "errors"
    /\ Len(pdf_files) = 2
    /\ FreshFiles # {}
    /\ archDir # EmptyDir
    /\ \A k \in 1..2 : basename(pdf_files[k]) \in DOMAIN srcDir

====
